---- MODULE Spec2Model ----
(***************************************************************************)
(* Model of the RaGsFyiTable component and its MultiSelect column picker   *)
(* (src/rags-fyi/components/src-components-ra-gs-fyi-table.tsx).           *)
(*                                                                         *)
(* A JavaScript string is a sequence of UTF-16 code units (naturals), so   *)
(* that toLowerCase, includes and the relational operators are computed    *)
(* and not assumed.  Column keys and predicate kinds are only ever tested  *)
(* for equality by the code and are TLA+ strings.  A row (VendorData) is a *)
(* function from the keys it has to strings; a key outside its DOMAIN is   *)
(* the JavaScript value undefined.                                         *)
(***************************************************************************)
EXTENDS Integers, Sequences, FiniteSets, TLC

VARIABLES
    vendors,          \* useState(initialVendors), line 121
    filters,          \* useState([]), line 122
    sortColumn,       \* useState('name'), line 123
    sortDirection,    \* useState('asc'), line 124
    selectedColumns,  \* useState(columns.map(col => col.key)), line 125
    tempFilters,      \* useState([]), line 126
    open,             \* MultiSelect: useState(false), line 34
    tempSelected,     \* MultiSelect: useState(selected), line 35
    rendered,         \* whether the component function has run once
    filteredVendors,  \* useMemo, lines 129-148
    sortedVendors     \* useMemo, lines 150-158

vars == <<vendors, filters, sortColumn, sortDirection, selectedColumns,
          tempFilters, open, tempSelected, rendered, filteredVendors,
          sortedVendors>>

(***************************************************************************)
(* String literals of the source, as code units.                           *)
(***************************************************************************)
EmptyString == <<>>
Str_Vectara == <<86,101,99,116,97,114,97>>
Str_EnterpriseSearch == <<69,110,116,101,114,112,114,105,115,101,45,103,114,97,100,101,32,65,73,32,115,101,97,114,99,104>>
Str_No == <<78,111>>
Str_UsageBased == <<85,115,97,103,101,45,98,97,115,101,100>>
Str_LlamaCloud == <<76,108,97,109,97,67,108,111,117,100>>
Str_OpenSourceRag == <<79,112,101,110,45,115,111,117,114,99,101,32,82,65,71,32,112,108,97,116,102,111,114,109>>
Str_Yes == <<89,101,115>>
Str_FreeTier == <<70,114,101,101,32,116,105,101,114,32,97,118,97,105,108,97,98,108,101>>

initialVendors ==
    << [name |-> Str_Vectara, usp |-> Str_EnterpriseSearch,
        oss |-> Str_No, pricing |-> Str_UsageBased],
       [name |-> Str_LlamaCloud, usp |-> Str_OpenSourceRag,
        oss |-> Str_Yes, pricing |-> Str_FreeTier] >>

columns ==
    << [key |-> "name", label |-> "Name"],
       [key |-> "usp", label |-> "USP"],
       [key |-> "oss", label |-> "Open Source"],
       [key |-> "pricing", label |-> "Pricing"] >>

ColumnKeys == {columns[i].key : i \in 1..Len(columns)}

getFilterOptions == <<"equals", "not-equals", "contains", "not-contains">>

FilterOption == {getFilterOptions[i] : i \in 1..Len(getFilterOptions)}

(***************************************************************************)
(* JavaScript built-ins the component calls.                               *)
(***************************************************************************)
\* String.prototype.toLowerCase on the ASCII range: A-Z (65..90) to a-z.
toLowerCase(s) ==
    [i \in 1..Len(s) |-> IF s[i] >= 65 /\ s[i] <= 90 THEN s[i] + 32 ELSE s[i]]

\* String.prototype.includes: sub occurs in s at some position.
StringIncludes(s, sub) ==
    \E k \in 1..(Len(s) - Len(sub) + 1) :
        \A j \in 1..Len(sub) : s[k + j - 1] = sub[j]

\* The relational operator < on two strings: lexicographic on code units.
RECURSIVE StringLess(_, _)
StringLess(a, b) ==
    IF b = <<>> THEN FALSE
    ELSE IF a = <<>> THEN TRUE
    ELSE IF Head(a) < Head(b) THEN TRUE
    ELSE IF Head(a) > Head(b) THEN FALSE
    ELSE StringLess(Tail(a), Tail(b))

\* Array.prototype.includes
ArrayIncludes(arr, x) == \E i \in 1..Len(arr) : arr[i] = x

\* Array.prototype.filter(item => item !== x)
ArrayWithout(arr, x) == SelectSeq(arr, LAMBDA item : item # x)

\* Array.prototype.findIndex(filter => filter.column === column); 0 is -1.
FindFilterIndex(fs, column) ==
    IF \E i \in 1..Len(fs) : fs[i].column = column
    THEN CHOOSE i \in 1..Len(fs) :
            /\ fs[i].column = column
            /\ \A j \in 1..(i - 1) : fs[j].column # column
    ELSE 0

(***************************************************************************)
(* Filter stage: the callback of filters.every, lines 131-146.             *)
(***************************************************************************)
\* A filter stage that drops a row lacking the filtered key and compares
\* without lowercasing.
FilterPassesStrict(vendor, filter) ==
    IF filter.column \notin DOMAIN vendor THEN FALSE
    ELSE LET value == vendor[filter.column] IN
         CASE filter.option = "equals" -> value = filter.value
           [] filter.option = "not-equals" -> value # filter.value
           [] filter.option = "contains" -> StringIncludes(value, filter.value)
           [] filter.option = "not-contains" -> ~StringIncludes(value, filter.value)
           [] OTHER -> TRUE

FilterPasses(vendor, filter) ==
    IF filter.column \notin DOMAIN vendor THEN TRUE
    ELSE LET value == vendor[filter.column] IN
         CASE filter.option = "equals" ->
                toLowerCase(value) = toLowerCase(filter.value)
           [] filter.option = "not-equals" ->
                toLowerCase(value) # toLowerCase(filter.value)
           [] filter.option = "contains" ->
                StringIncludes(toLowerCase(value), toLowerCase(filter.value))
           [] filter.option = "not-contains" ->
                ~StringIncludes(toLowerCase(value), toLowerCase(filter.value))
           [] OTHER -> TRUE

\* vendors.filter(vendor => filters.every(...)), lines 130-147
FilterVendors(vs, fs) ==
    SelectSeq(vs, LAMBDA vendor :
        \A i \in 1..Len(fs) : FilterPasses(vendor, fs[i]))

(***************************************************************************)
(* Sort stage, lines 150-158.                                              *)
(***************************************************************************)
\* a[sortColumn] || ''
SortValue(vendor, column) ==
    IF column \in DOMAIN vendor THEN vendor[column] ELSE EmptyString

\* The comparator handed to sort, lines 151-157.
Compare(a, b, column, direction) ==
    LET aValue == SortValue(a, column)
        bValue == SortValue(b, column)
    IN  IF StringLess(aValue, bValue)
        THEN (IF direction = "asc" THEN -1 ELSE 1)
        ELSE IF StringLess(bValue, aValue)
        THEN (IF direction = "asc" THEN 1 ELSE -1)
        ELSE 0

\* An insertion that puts x before the elements it ties with.
RECURSIVE InsertSortedUnstable(_, _, _, _)
InsertSortedUnstable(sorted, x, column, direction) ==
    IF sorted = <<>> THEN <<x>>
    ELSE IF Compare(sorted[Len(sorted)], x, column, direction) >= 0
    THEN Append(InsertSortedUnstable(SubSeq(sorted, 1, Len(sorted) - 1), x,
                                     column, direction),
                sorted[Len(sorted)])
    ELSE Append(sorted, x)

\* One insertion of Array.prototype.sort, which ECMAScript requires to be
\* stable: x goes behind the last element the comparator does not put
\* after it.
RECURSIVE InsertSorted(_, _, _, _)
InsertSorted(sorted, x, column, direction) ==
    IF sorted = <<>> THEN <<x>>
    ELSE IF Compare(sorted[Len(sorted)], x, column, direction) > 0
    THEN Append(InsertSorted(SubSeq(sorted, 1, Len(sorted) - 1), x,
                             column, direction),
                sorted[Len(sorted)])
    ELSE Append(sorted, x)

\* [...filteredVendors].sort(comparator)
RECURSIVE SortVendors(_, _, _)
SortVendors(vs, column, direction) ==
    IF vs = <<>> THEN <<>>
    ELSE InsertSorted(SortVendors(SubSeq(vs, 1, Len(vs) - 1), column, direction),
                      vs[Len(vs)], column, direction)

(***************************************************************************)
(* Column projection, lines 201 and 263.                                   *)
(***************************************************************************)
\* A projection that follows the order of the selection.
VisibleColumnsInSelectionOrder(selection) ==
    [i \in 1..Len(selection) |->
        columns[CHOOSE j \in 1..Len(columns) : columns[j].key = selection[i]]]

VisibleColumns(selection) ==
    SelectSeq(columns, LAMBDA column : ArrayIncludes(selection, column.key))

visibleColumns == VisibleColumns(selectedColumns)

IsVisible(key) == \E i \in 1..Len(visibleColumns) : visibleColumns[i].key = key

(***************************************************************************)
(* The state after construction: the useState initial values, before the   *)
(* component function has computed its memoised values.                    *)
(***************************************************************************)
Init ==
    /\ vendors = initialVendors
    /\ filters = <<>>
    /\ sortColumn = "name"
    /\ sortDirection = "asc"
    /\ selectedColumns = [i \in 1..Len(columns) |-> columns[i].key]
    /\ tempFilters = <<>>
    /\ open = FALSE
    /\ tempSelected = selectedColumns
    /\ rendered = FALSE
    /\ filteredVendors = <<>>
    /\ sortedVendors = <<>>

\* The two useMemo values for the state a handler leaves, lines 129-158.
Memoise(vs, fs, column, direction) ==
    /\ filteredVendors' = FilterVendors(vs, fs)
    /\ sortedVendors' = SortVendors(FilterVendors(vs, fs), column, direction)

\* The first run of the component function (mount).
Render ==
    /\ ~rendered
    /\ rendered' = TRUE
    /\ Memoise(vendors, filters, sortColumn, sortDirection)
    /\ UNCHANGED <<vendors, filters, sortColumn, sortDirection,
                   selectedColumns, tempFilters, open, tempSelected>>

\* A handleSort that keeps the direction when the column changes.
handleSortKeepDirection(column) ==
    /\ rendered
    /\ IsVisible(column)
    /\ IF column = sortColumn
       THEN /\ sortDirection' = (IF sortDirection = "asc" THEN "desc" ELSE "asc")
            /\ sortColumn' = sortColumn
       ELSE /\ sortColumn' = column
            /\ sortDirection' = sortDirection
    /\ Memoise(vendors, filters, sortColumn', sortDirection')
    /\ UNCHANGED <<vendors, filters, selectedColumns, tempFilters, open,
                   tempSelected, rendered>>

\* handleSort, lines 160-167; reached from a visible header, line 205.
handleSort(column) ==
    /\ rendered
    /\ IsVisible(column)
    /\ IF column = sortColumn
       THEN /\ sortDirection' = (IF sortDirection = "asc" THEN "desc" ELSE "asc")
            /\ sortColumn' = sortColumn
       ELSE /\ sortColumn' = column
            /\ sortDirection' = "asc"
    /\ Memoise(vendors, filters, sortColumn', sortDirection')
    /\ UNCHANGED <<vendors, filters, selectedColumns, tempFilters, open,
                   tempSelected, rendered>>

\* An updater that always appends.
UpdateFiltersAppend(prev, column, option, value) ==
    Append(prev, [column |-> column, option |-> option, value |-> value])

\* The updater handed to setTempFilters, lines 170-179.
UpdateFilters(prev, column, option, value) ==
    LET existingFilterIndex == FindFilterIndex(prev, column)
        entry == [column |-> column, option |-> option, value |-> value]
    IN  IF existingFilterIndex # 0
        THEN [prev EXCEPT ![existingFilterIndex] = entry]
        ELSE Append(prev, entry)

\* A handleFilterChange that writes the active set as well (live mode).
handleFilterChangeLive(column, option, value) ==
    /\ tempFilters' = UpdateFilters(tempFilters, column, option, value)
    /\ filters' = UpdateFilters(filters, column, option, value)
    /\ Memoise(vendors, filters', sortColumn, sortDirection)
    /\ UNCHANGED <<vendors, sortColumn, sortDirection,
                   selectedColumns, open, tempSelected, rendered>>

\* handleFilterChange, lines 169-180.
handleFilterChange(column, option, value) ==
    /\ tempFilters' = UpdateFilters(tempFilters, column, option, value)
    /\ Memoise(vendors, filters, sortColumn, sortDirection)
    /\ UNCHANGED <<vendors, filters, sortColumn, sortDirection,
                   selectedColumns, open, tempSelected, rendered>>

\* An editor that reads the comparison value from the draft.
EditorValueFromDraft(column) ==
    LET i == FindFilterIndex(tempFilters, column)
    IN  IF i # 0 THEN tempFilters[i].value ELSE EmptyString

\* filters.find(f => f.column === column.key)?.value || '', lines 227, 244
EditorValue(column) ==
    LET i == FindFilterIndex(filters, column)
    IN  IF i # 0 THEN filters[i].value ELSE EmptyString

\* filters.find(f => f.column === column.key)?.option || 'equals', line 247
EditorOption(column) ==
    LET i == FindFilterIndex(filters, column)
    IN  IF i # 0 THEN filters[i].option ELSE "equals"

\* Select onValueChange of a visible column's filter popover, lines 225-229.
onValueChange(column, option) ==
    /\ rendered
    /\ IsVisible(column)
    /\ handleFilterChange(column, option, EditorValue(column))

\* Input onChange of a visible column's filter popover, lines 245-249.
onChange(column, text) ==
    /\ rendered
    /\ IsVisible(column)
    /\ handleFilterChange(column, EditorOption(column), text)

\* An onOpenChange that resets the draft to the committed selection.
onOpenChangeReset ==
    /\ rendered
    /\ open' = ~open
    /\ tempSelected' = selectedColumns
    /\ UNCHANGED <<vendors, filters, sortColumn, sortDirection,
                   selectedColumns, tempFilters, rendered,
                   filteredVendors, sortedVendors>>

\* Popover onOpenChange={setOpen}, line 38: the trigger, or a dismissal.
onOpenChange ==
    /\ rendered
    /\ open' = ~open
    /\ UNCHANGED <<vendors, filters, sortColumn, sortDirection,
                   selectedColumns, tempFilters, tempSelected, rendered,
                   filteredVendors, sortedVendors>>

\* The toggle of CommandItem onSelect, lines 59-63.
ToggleSelected(selection, value) ==
    IF ArrayIncludes(selection, value)
    THEN ArrayWithout(selection, value)
    ELSE Append(selection, value)

\* CommandItem onSelect, lines 58-64; the items exist while the popover is open.
onSelect(value) ==
    /\ rendered
    /\ open
    /\ tempSelected' = ToggleSelected(tempSelected, value)
    /\ UNCHANGED <<vendors, filters, sortColumn, sortDirection,
                   selectedColumns, tempFilters, open, rendered,
                   filteredVendors, sortedVendors>>

\* What Apply hands to onChange (setSelectedColumns), line 80.
AppliedSelection == tempSelected

\* An Apply that drops the draft filters of the columns it hides.
ApplyPruning ==
    /\ rendered
    /\ open
    /\ selectedColumns' = AppliedSelection
    /\ open' = FALSE
    /\ tempFilters' = SelectSeq(tempFilters,
                         LAMBDA f : ArrayIncludes(AppliedSelection, f.column))
    /\ Memoise(vendors, filters, sortColumn, sortDirection)
    /\ UNCHANGED <<vendors, filters, sortColumn, sortDirection,
                   tempSelected, rendered>>

\* The Apply button, lines 79-82: onChange(tempSelected); setOpen(false).
Apply ==
    /\ rendered
    /\ open
    /\ selectedColumns' = AppliedSelection
    /\ open' = FALSE
    /\ Memoise(vendors, filters, sortColumn, sortDirection)
    /\ UNCHANGED <<vendors, filters, sortColumn, sortDirection, tempFilters,
                   tempSelected, rendered>>

(***************************************************************************)
(* The session's inputs.  The text a user types is unbounded, and the      *)
(* picker and the filter drafts of all four columns multiply; Spec lets    *)
(* the user toggle the columns of ToggleKeys and edit the filters of       *)
(* EditKeys, and PickerSpec lets every column be toggled.                  *)
(***************************************************************************)
Str_yes == <<121,101,115>>
Str_zzz == <<122,122,122>>
Texts == {Str_yes, Str_zzz}
ToggleKeys == {"name"}
EditKeys == {"name", "oss"}

Next ==
    \/ Render
    \/ \E column \in ColumnKeys : handleSort(column)
    \/ \E column \in EditKeys : \E option \in FilterOption :
          onValueChange(column, option)
    \/ \E column \in EditKeys : \E text \in Texts : onChange(column, text)
    \/ onOpenChange
    \/ \E value \in ToggleKeys : onSelect(value)
    \/ Apply

Spec == Init /\ [][Next]_vars

\* Spec with the user using every control again and again.
FairSpec ==
    /\ Spec
    /\ WF_vars(\E column \in ColumnKeys : handleSort(column))
    /\ WF_vars(\E column \in EditKeys : \E option \in FilterOption :
                  onValueChange(column, option))
    /\ WF_vars(\E column \in EditKeys : \E text \in Texts : onChange(column, text))
    /\ WF_vars(onOpenChange)
    /\ WF_vars(\E value \in ToggleKeys : onSelect(value))
    /\ WF_vars(Apply)

\* The column picker with every column, and the sortable headers.
PickerNext ==
    \/ Render
    \/ \E column \in ColumnKeys : handleSort(column)
    \/ onOpenChange
    \/ \E value \in ColumnKeys : onSelect(value)
    \/ Apply

PickerSpec == Init /\ [][PickerNext]_vars

(***************************************************************************)
(* The filter and sort stages over bounded row sets and filter sets: the   *)
(* component constructed with other seed data, and with an active filter   *)
(* set.                                                                    *)
(***************************************************************************)
MaxRows == 2
MaxFilters == 2
MaxSortRows == 3

SeqsUpTo(S, n) == UNION {[1..k -> S] : k \in 0..n}

Str_Ab == <<65,98>>
Str_aB == <<97,66>>
Str_cAB == <<99,65,66>>
Str_c == <<99>>
Str_a == <<97>>
Str_ab == <<97,98>>
Str_x == <<120>>
Str_y == <<121>>

FilterRowUniverse ==
    { [name |-> Str_Ab],
      [name |-> Str_cAB, oss |-> Str_Ab],
      [oss |-> Str_c],
      [name |-> Str_c, oss |-> Str_cAB] }

\* "unknown" is a predicate kind outside FilterOption (the default branch).
FilterUniverse ==
    [column : {"name", "oss"}, option : FilterOption \cup {"unknown"},
     value : {Str_aB, EmptyString}]

SortRowUniverse ==
    { [name |-> n, oss |-> o] : n \in {Str_Ab, Str_a, Str_ab}, o \in {Str_x, Str_y} }
    \cup { [oss |-> o] : o \in {Str_x, Str_y} }

InitWith(vs, fs) ==
    /\ vendors = vs
    /\ filters = fs
    /\ sortColumn = "name"
    /\ sortDirection = "asc"
    /\ selectedColumns = [i \in 1..Len(columns) |-> columns[i].key]
    /\ tempFilters = <<>>
    /\ open = FALSE
    /\ tempSelected = selectedColumns
    /\ rendered = FALSE
    /\ filteredVendors = <<>>
    /\ sortedVendors = <<>>

FilterInit ==
    \E vs \in SeqsUpTo(FilterRowUniverse, MaxRows) :
        \E fs \in SeqsUpTo(FilterUniverse, MaxFilters) : InitWith(vs, fs)

FilterNext == Render

FilterSpec == FilterInit /\ [][FilterNext]_vars

\* The active filter set of the sort stage's check: none, or one filter.
SortFilterSets ==
    {<<>>, <<[column |-> "oss", option |-> "not-equals", value |-> Str_x]>>}

SortInit ==
    \E vs \in SeqsUpTo(SortRowUniverse, MaxSortRows) :
        \E fs \in SortFilterSets : InitWith(vs, fs)

SortNext ==
    \/ Render
    \/ \E column \in ColumnKeys : handleSort(column)

SortSpec == SortInit /\ [][SortNext]_vars

(***************************************************************************)
(* Properties.                                                             *)
(***************************************************************************)
\* fs has an entry for the column.
HasFilterFor(fs, column) == \E i \in 1..Len(fs) : fs[i].column = column

\* C1: a filter edit accumulated in the draft tempFilters is moved into the
\* active set filters by an explicit commit: once a column has a draft
\* entry, a user who keeps using every control reaches a state in which
\* filters holds an entry for that column.  (Checked under FairSpec.)
C1_DraftReachesActiveSet ==
    \A column \in EditKeys :
        HasFilterFor(tempFilters, column) ~> HasFilterFor(filters, column)

\* What the code does instead: the active filter set never changes.
FiltersNeverSet == [][filters' = filters]_vars

\* sub is a contiguous part of s.
IsSubstring(sub, s) ==
    \E i \in 1..(Len(s) + 1) : \E j \in (i - 1)..Len(s) : SubSeq(s, i, j) = sub

\* The row satisfies the filter.
Satisfied(row, f) ==
    \/ f.column \notin DOMAIN row
    \/ f.option \notin {"equals", "not-equals", "contains", "not-contains"}
    \/ /\ f.column \in DOMAIN row
       /\ LET rowValue == toLowerCase(row[f.column])
              filterValue == toLowerCase(f.value)
          IN  \/ f.option = "equals" /\ rowValue = filterValue
              \/ f.option = "not-equals" /\ rowValue # filterValue
              \/ f.option = "contains" /\ IsSubstring(filterValue, rowValue)
              \/ f.option = "not-contains" /\ ~IsSubstring(filterValue, rowValue)

\* The positions in vendors of the rows that satisfy every active filter.
KeptIndices ==
    {i \in 1..Len(vendors) :
        \A j \in 1..Len(filters) : Satisfied(vendors[i], filters[j])}

\* The n-th smallest element of a set of naturals.
NthOf(S, n) == CHOOSE k \in S : Cardinality({m \in S : m <= k}) = n

\* C2: the filtered rows are exactly the rows that satisfy every filter, in
\* their input order; a filter is satisfied when the row lacks its column,
\* or its kind is not one of the four, or the case-insensitive comparison
\* of its kind holds.
C2_FilteredRowsAreTheSatisfyingRows ==
    rendered =>
        /\ Len(filteredVendors) = Cardinality(KeptIndices)
        /\ \A n \in 1..Len(filteredVendors) :
              filteredVendors[n] = vendors[NthOf(KeptIndices, n)]

\* Two filters on two rows keep the second row only.
C2_Witness ==
    /\ rendered
    /\ Len(vendors) = 2
    /\ Len(filters) = 2
    /\ filters[1].column # filters[2].column
    /\ filteredVendors = <<vendors[2]>>
    /\ vendors[1] # vendors[2]

\* The sort key of a row.
KeyOf(row) == IF sortColumn \in DOMAIN row THEN row[sortColumn] ELSE <<>>

\* The permutations of 1..n.
IndexPermutations(n) ==
    {p \in [1..n -> 1..n] : \A i, j \in 1..n : i # j => p[i] # p[j]}

\* C3: sortedVendors is a permutation of the filtered rows, ordered by the
\* string at the sort column ('' when absent), non-decreasing for 'asc' and
\* non-increasing for 'desc'; rows with equal keys keep their order from
\* the filtered sequence in both directions, and the filtered sequence
\* stays the rows of vendors that satisfy the filters, in the order of
\* vendors.
C3_SortedIsStablePermutation ==
    rendered =>
        /\ filteredVendors =
              SelectSeq(vendors, LAMBDA row :
                  \A j \in 1..Len(filters) : Satisfied(row, filters[j]))
        /\ Len(sortedVendors) = Len(filteredVendors)
        /\ \E p \in IndexPermutations(Len(filteredVendors)) :
              /\ \A i \in 1..Len(sortedVendors) :
                    sortedVendors[i] = filteredVendors[p[i]]
              /\ \A i, j \in 1..Len(sortedVendors) :
                    (i < j /\ KeyOf(sortedVendors[i]) = KeyOf(sortedVendors[j]))
                        => p[i] < p[j]
        /\ \A i, j \in 1..Len(sortedVendors) :
              i < j =>
                 IF sortDirection = "asc"
                 THEN ~StringLess(KeyOf(sortedVendors[j]), KeyOf(sortedVendors[i]))
                 ELSE ~StringLess(KeyOf(sortedVendors[i]), KeyOf(sortedVendors[j]))

\* A descending sort that moved a row and kept two tied, different rows in
\* their filtered order.
C3_Witness ==
    /\ rendered
    /\ sortDirection = "desc"
    /\ Len(filteredVendors) = 3
    /\ Len(vendors) = 3
    /\ sortedVendors = <<filteredVendors[2], filteredVendors[3], filteredVendors[1]>>
    /\ KeyOf(filteredVendors[2]) = KeyOf(filteredVendors[3])
    /\ filteredVendors[2] # filteredVendors[3]

\* C4: handleSort on the active column flips the direction and keeps the
\* column; on another column it makes that column active with direction
\* 'asc'; one (column, direction) pair is active in every state.
C4_SortSelection ==
    /\ [](sortColumn \in ColumnKeys /\ sortDirection \in {"asc", "desc"})
    /\ [][\A column \in ColumnKeys :
            handleSort(column) =>
                IF column = sortColumn
                THEN /\ sortColumn' = sortColumn
                     /\ sortDirection # sortDirection'
                ELSE /\ sortColumn' = column
                     /\ sortDirection' = "asc"]_vars

\* A new column was selected after the direction had been flipped.
C4_Witness == rendered /\ sortColumn = "oss" /\ sortDirection = "desc"

\* A step of one of the two filter editor handlers.
FilterEdit ==
    \/ \E column \in ColumnKeys : \E option \in FilterOption :
          onValueChange(column, option)
    \/ \E column \in ColumnKeys : \E text \in Texts : onChange(column, text)

\* C5: a filter edit changes the draft only: the active set, the memoised
\* rows and everything else stay as they were.
C5_EditsStayInDraft ==
    [][FilterEdit =>
          /\ filters' = filters
          /\ filteredVendors' = filteredVendors
          /\ sortedVendors' = sortedVendors
          /\ UNCHANGED <<vendors, sortColumn, sortDirection, selectedColumns,
                         open, tempSelected>>]_vars

\* Both edited columns have a draft entry and both rows are displayed.
C5_Witness ==
    /\ Len(tempFilters) = 2
    /\ tempFilters[2].value = Str_yes
    /\ filters = <<>>
    /\ sortedVendors = <<initialVendors[2], initialVendors[1]>>

\* No two entries of fs have the same column.
OnePerColumn(fs) ==
    \A i, j \in 1..Len(fs) : fs[i].column = fs[j].column => i = j

\* A filter editor step for the column.
EditOf(column) ==
    \/ \E option \in FilterOption : onValueChange(column, option)
    \/ \E text \in Texts : onChange(column, text)

\* C6: the draft and the active set hold at most one filter per column; an
\* edit for a column that has an entry replaces it in place, and an edit
\* for a new column appends one entry.
C6_OneFilterPerColumn ==
    /\ [](OnePerColumn(tempFilters) /\ OnePerColumn(filters))
    /\ [][\A column \in ColumnKeys :
            EditOf(column) =>
                IF HasFilterFor(tempFilters, column)
                THEN /\ Len(tempFilters') = Len(tempFilters)
                     /\ \A i \in 1..Len(tempFilters) :
                           IF tempFilters[i].column = column
                           THEN tempFilters'[i].column = column
                           ELSE tempFilters'[i] = tempFilters[i]
                ELSE /\ Len(tempFilters') = Len(tempFilters) + 1
                     /\ SubSeq(tempFilters', 1, Len(tempFilters)) = tempFilters
                     /\ tempFilters'[Len(tempFilters')].column = column]_vars

\* The first of two entries was edited again and stayed first.
C6_Witness ==
    /\ Len(tempFilters) = 2
    /\ tempFilters[1] = [column |-> "oss", option |-> "contains", value |-> EmptyString]
    /\ tempFilters[2].column = "name"

\* The position of a column in the static list.
IndexInColumns(column) == CHOOSE i \in 1..Len(columns) : columns[i] = column

\* C7: the visible columns are the entries of columns whose key is in the
\* committed selection, in the order of columns; they are a subset of the
\* columns, and the number of rows does not change with the selection.
C7_ColumnProjection ==
    /\ [](/\ \A i \in 1..Len(visibleColumns) :
                /\ \E j \in 1..Len(columns) : columns[j] = visibleColumns[i]
                /\ \E j \in 1..Len(selectedColumns) :
                      selectedColumns[j] = visibleColumns[i].key
          /\ \A j \in 1..Len(columns) :
                (\E k \in 1..Len(selectedColumns) : selectedColumns[k] = columns[j].key)
                    => \E i \in 1..Len(visibleColumns) : visibleColumns[i] = columns[j]
          /\ \A i, j \in 1..Len(visibleColumns) :
                i < j => IndexInColumns(visibleColumns[i])
                            < IndexInColumns(visibleColumns[j]))
    /\ [][selectedColumns' # selectedColumns =>
            Len(sortedVendors') = Len(sortedVendors)]_vars

\* A selection in another order than columns.
C7_Witness ==
    /\ selectedColumns = <<"pricing", "usp", "name">>
    /\ Len(visibleColumns) = 3
    /\ visibleColumns[1].key = "name"
    /\ Len(sortedVendors) = 2

\* The empty selection: no visible column, two rows.
C7_EmptySelection ==
    selectedColumns = <<>> /\ visibleColumns = <<>> /\ Len(sortedVendors) = 2

\* A step of the picker: a toggle, or Apply.
PickerEdit ==
    \/ \E value \in ColumnKeys : onSelect(value)
    \/ Apply

\* C8: a toggle in the picker and Apply leave the rows, both filter sets
\* and the sort state as they were.
C8_PickerLeavesFilterAndSort ==
    [][PickerEdit =>
          UNCHANGED <<vendors, filters, tempFilters, sortColumn,
                      sortDirection, filteredVendors, sortedVendors>>]_vars

\* The hidden column is the active sort column and has a draft filter.
C8_Witness ==
    /\ rendered
    /\ ~IsVisible(sortColumn)
    /\ HasFilterFor(tempFilters, sortColumn)
    /\ sortDirection = "desc"

\* The entry of fs for the column.
DraftEntry(fs, column) == fs[CHOOSE i \in 1..Len(fs) : fs[i].column = column]

\* C9: every draft entry has kind 'equals' or an empty comparison value: a
\* text edit writes the column's entry with kind 'equals', a kind selection
\* writes it with value ''.
C9_DraftBuiltFromActiveSet ==
    /\ [](\A i \in 1..Len(tempFilters) :
            tempFilters[i].option = "equals" \/ tempFilters[i].value = EmptyString)
    /\ [][\A column \in ColumnKeys :
            /\ \A text \in Texts :
                  onChange(column, text) =>
                      DraftEntry(tempFilters', column) =
                          [column |-> column, option |-> "equals", value |-> text]
            /\ \A option \in FilterOption :
                  onValueChange(column, option) =>
                      DraftEntry(tempFilters', column) =
                          [column |-> column, option |-> option,
                           value |-> EmptyString]]_vars

\* A typed value was overwritten by a kind selection, and a kind by a value.
C9_Witness ==
    /\ Len(tempFilters) = 2
    /\ tempFilters[1] = [column |-> "name", option |-> "contains", value |-> EmptyString]
    /\ tempFilters[2] = [column |-> "oss", option |-> "equals", value |-> Str_yes]

\* C10: a toggle changes the picker's draft only; the committed selection
\* changes only on Apply and then equals the draft; opening or closing the
\* popover changes neither, so the draft of an abandoned edit is kept.
C10_StagedPicker ==
    /\ [][\A value \in ColumnKeys :
            onSelect(value) =>
                /\ selectedColumns' = selectedColumns
                /\ tempSelected' =
                      IF \E i \in 1..Len(tempSelected) : tempSelected[i] = value
                      THEN SelectSeq(tempSelected, LAMBDA k : k # value)
                      ELSE tempSelected \o <<value>>]_vars
    /\ [][selectedColumns' # selectedColumns =>
            /\ open /\ ~open'
            /\ selectedColumns' = tempSelected
            /\ tempSelected' = tempSelected]_vars
    /\ [][open' # open => tempSelected' = tempSelected]_vars

\* After an earlier Apply, the popover was closed without Apply: the draft
\* keeps the abandoned toggle.
C10_Witness ==
    /\ ~open
    /\ selectedColumns = <<"usp", "oss", "pricing", "name">>
    /\ tempSelected = <<"usp", "pricing", "name">>

====
